---- MODULE Spec2Model ----
(***************************************************************************)
(* The diagnostic case view (src/src/pages/CaseDetailRefactored.jsx) and   *)
(* the REST helpers it calls (src/src/api/cases.js, src/src/api/analysis.js)*)
(* as a state machine.  One action per handler, timer callback or promise  *)
(* settlement; a request in flight is a piece of state, and the body of a  *)
(* response is chosen by the server when the request settles.              *)
(***************************************************************************)
EXTENDS Integers, Sequences, FiniteSets, TLC

\* ------------------------------------------------------------------ bounds
MaxNodes == 2        \* longest node list the model lets the view hold
MaxEdges == 2        \* longest edge list the model lets the view hold
MaxAttachments == 1  \* most uploaded files attached to one reply
MaxRefresh == 1      \* most refreshNodes calls in flight at once
MaxPosts == 1        \* most interaction POSTs in flight at once
MaxPollElapsedMs == 125000  \* the analysis poll loop is followed this far
MaxRouteChanges == 1  \* most changes of the route parameter while mounted

\* ------------------------------------------------------- program constants
PollInitialDelayMs == 1000
PollIntervalMs == 2000

\* ------------------------------------------------------------- value sets
CaseIds == {"", "undefined", "c1"}   \* "" is an absent route parameter
RouteIds == {"c1", "c2"}             \* the cases the route moves between
NoStale == [loads |-> [c \in RouteIds |-> 0],
            refreshes |-> [c \in RouteIds |-> 0]]
NodeIds == {"n1", "n2"}
Statuses == {"PROCESSING", "AWAITING_USER_INPUT", "COMPLETED"}
Shapes == {"envelope", "bare"}       \* { data: payload } or the payload itself
\* every kind of body a list endpoint can answer with: the two above,
\* { data: { nodes: list } }, { nodes: list } (the documented body), null
\* and a number
WireShapes == Shapes \cup {"dataKeyed", "keyed", "null", "number"}
ValueTypes == {"array", "object", "number"}
Tabs == {"detail", "analysis", "feedback"}

Node(n) == [id |-> n]
NodeUniverse == {Node(n) : n \in NodeIds}
EdgeUniverse == { [id |-> "e1", source |-> "n1", target |-> "n2"] }

NoNode == [id |-> "none", status |-> "none"]
\* the spelling of the fields of an interaction result: new_nodes,
\* new_edges, processing_node_id or newNodes, newEdges, processingNodeId
Spellings == {"snake", "camel"}
NoWire == [shape |-> "none", spelling |-> "none", new_nodes |-> <<>>,
           new_edges |-> <<>>, processing_node_id |-> "none"]
\* what handleUserResponse has in hand after a response: the two lists it
\* read, the processing_node_id the body carried (which it never reads)
\* and the body itself
NoResp == [new_nodes |-> <<>>, new_edges |-> <<>>,
           processing_node_id |-> "none", wire |-> NoWire]
\* the modules that export submitInteraction
Helpers == {"verbatim", "compat"}
NoPayload == [none |-> TRUE]

SeqsUpTo(S, k) == UNION {[1..m -> S] : m \in 0..k}
Range(s) == {s[i] : i \in 1..Len(s)}
IdsOf(s) == {s[i].id : i \in 1..Len(s)}
NoDupIds(s) == \A i, j \in 1..Len(s) : i # j => s[i].id # s[j].id

\* one server response is duplicate-free
NodeLists == {s \in SeqsUpTo(NodeUniverse, Cardinality(NodeUniverse)) : NoDupIds(s)}
EdgeLists == {s \in SeqsUpTo(EdgeUniverse, Cardinality(EdgeUniverse)) : NoDupIds(s)}
NodeBodies == [shape : Shapes, list : NodeLists]
EdgeBodies == [shape : Shapes, list : EdgeLists]
WireNodeBodies == [shape : WireShapes, list : NodeLists]
WireEdgeBodies == [shape : WireShapes, list : EdgeLists]
InteractionBodies ==
  [shape : Shapes, spelling : {"snake"}, new_nodes : NodeLists,
   new_edges : EdgeLists, processing_node_id : NodeIds \cup {"none"}]
WireInteractionBodies ==
  [shape : Shapes, spelling : Spellings, new_nodes : NodeLists,
   new_edges : EdgeLists, processing_node_id : NodeIds \cup {"none"}]
\* texts of the reply box, as sequences of characters: "", " ", " a "
Inputs == { <<>>, <<" ">>, <<" ", "a", " ">> }
\* a step of handleUserResponse or of pollResult: what it read from the
\* response, the alert() it raised, the body it posted, the status it saw
Event(op, body, alert, posted, status) ==
  [op |-> op, body |-> body, alert |-> alert, posted |-> posted,
   status |-> status]
NoEvent == Event("none", NoResp, "", NoPayload, "none")

\* ------------------------------------------------------------------ state
VARIABLES
  id,             \* useParams().id
  server,         \* the status the backend holds for the node of the case
  snaps,          \* the status a GET of the node list that is under way has
                  \* read at the backend: one for the load, one for the
                  \* refresh
  mounted,        \* the component is in the tree
  effectRan,      \* the [id] effect has run
  interval,       \* number of registered 5 s setInterval handles
  caseData, nodes, edges, activeNode, loading, processing, error,
  nodesType,      \* what kind of value the nodes state holds; the variable
                  \* nodes is its content when that is an array
  edgesType,      \* the same for the edges state
  userInput, attachments, rightPanelTab,
  analysisLoading, analysisResult, analysisError,
  loadReq,        \* loadCaseData's Promise.all is unsettled
  refreshReqs,    \* number of unsettled refreshNodes calls
  postReqs,       \* number of unsettled interaction POSTs
  selectTimers,   \* node ids of pending setTimeout(handleNodeClick, 500)
  detailReqs,     \* node ids of unsettled getNodeDetail calls
  analyzeReq,     \* analyzeLog POST unsettled
  pollTimer,      \* number of pending setTimeout(pollResult, ...)
  pollReq,        \* number of unsettled getAnalysisResult calls
  pollElapsed,    \* timer time since the poll loop was started, ms
  getIssued,      \* some GET has been issued since construction
  ev,             \* the step of handleUserResponse that ran last, if the
                  \* last step was one: what it read from the response
                  \* and the alert() it raised
  stale,          \* per case id, the unsettled loadCaseData and
                  \* refreshNodes calls made before the route left that id
  captured,       \* the processing constant in the closure of the interval
                  \* callback
  routeChanges,   \* number of changes of the route parameter so far
  lastSelect      \* the node id of the handleNodeClick call made last, in
                  \* the specifications that keep it

routeVars == <<stale, captured, routeChanges>>
graphVars == <<caseData, nodes, edges, nodesType, edgesType>>
formVars == <<userInput, attachments>>
analysisVars == <<analysisLoading, analysisResult, analysisError,
                  analyzeReq, pollTimer, pollReq, pollElapsed>>
vars == <<id, server, snaps, mounted, effectRan, interval, caseData, nodes, edges,
          nodesType, edgesType, activeNode,
          loading, processing, error, userInput, attachments, rightPanelTab,
          analysisLoading, analysisResult, analysisError, loadReq,
          refreshReqs, postReqs, selectTimers, detailReqs, analyzeReq,
          pollTimer, pollReq, pollElapsed, getIssued, ev, stale, captured,
          routeChanges, lastSelect>>

\* ---------------------------------------------------------------- helpers
\* String.prototype.trim on a sequence of characters
RECURSIVE TrimStart(_)
TrimStart(s) ==
  IF s = <<>> THEN s
  ELSE IF Head(s) = " " THEN TrimStart(Tail(s)) ELSE s

RECURSIVE TrimEnd(_)
TrimEnd(s) ==
  IF s = <<>> THEN s
  ELSE IF s[Len(s)] = " " THEN TrimEnd(SubSeq(s, 1, Len(s) - 1)) ELSE s

Trim(s) == TrimEnd(TrimStart(s))

\* !userInput alone: the empty string is the only falsy text
InputRejectedNoTrim(text, atts) == text = <<>> /\ Len(atts) = 0

\* !userInput.trim() && attachments.length === 0
InputRejected(text, atts) == Trim(text) = <<>> /\ Len(atts) = 0

\* res?.data || res || []  for a list response, as the kind of the value
\* and, when it is an array, its content.  An array is truthy even when
\* empty, so an envelope yields its data and a bare list yields itself; an
\* object under data, or a body without data, is truthy and yields itself;
\* only a falsy body reaches the [] at the end
UnwrapList(body) ==
  CASE body.shape = "envelope" -> [type |-> "array", list |-> body.list]
    [] body.shape = "bare" -> [type |-> "array", list |-> body.list]
    [] body.shape = "dataKeyed" -> [type |-> "object", list |-> <<>>]
    [] body.shape = "keyed" -> [type |-> "object", list |-> <<>>]
    [] body.shape = "null" -> [type |-> "array", list |-> <<>>]
    [] body.shape = "number" -> [type |-> "number", list |-> <<>>]

\* setState on a component that is no longer in the tree changes nothing
SetState(old, new) == IF mounted THEN new ELSE old

\* [0] of a non-empty array: its oldest entry
FirstOf(list) == list[1]

\* .slice(-1)[0] of a non-empty array
LastOf(list) == list[Len(list)]

\* response?.data?.new_nodes || []  where response is the HTTP body: only
\* an enveloped body has a data member, and only the snake_case spelling
\* has a new_nodes member
NewNodesOf(body) ==
  IF body.shape = "envelope" /\ body.spelling = "snake"
    THEN body.new_nodes ELSE <<>>

\* response?.data?.new_edges || []
NewEdgesOf(body) ==
  IF body.shape = "envelope" /\ body.spelling = "snake"
    THEN body.new_edges ELSE <<>>

\* lines 114-115 applied to one response body; the body itself is kept
\* with what was read where the spelling and the envelope are looked at
ReadInteraction(body, keepWire) ==
  [new_nodes |-> NewNodesOf(body), new_edges |-> NewEdgesOf(body),
   processing_node_id |-> body.processing_node_id,
   wire |-> IF keepWire THEN body ELSE NoWire]

\* a member of a request object: a value, null, or undefined for a member
\* the object does not have
Val(x) == [v |-> x]
Null == [null |-> TRUE]
Undefined == [undefined |-> TRUE]

\* the argument handleUserResponse passes to submitInteraction
InteractionData(text, parent, atts) ==
  [type |-> Val("USER_RESPONSE"), content |-> Val(text),
   parent_node_id |-> Val(parent), attachments |-> Val(atts)]

\* data?.key
Member(data, key) == IF key \in DOMAIN data THEN data[key] ELSE Undefined

\* a ?? b ?? ... : the first value that is neither null nor undefined, and
\* the last value when there is none
RECURSIVE Coalesce(_)
Coalesce(values) ==
  IF Len(values) = 1 THEN values[1]
  ELSE IF Head(values) \notin {Null, Undefined} THEN Head(values)
  ELSE Coalesce(Tail(values))

ParentAliases == <<"parentNodeId", "parent_node_id", "parent_nodeID",
                   "parent_nodeId", "parentId", "parent_id">>

\* the body posted by submitInteraction of src/api/cases.js: its argument
submitInteraction(data) == data

\* the body posted by the submitInteraction that rewrites legacy fields
submitInteractionCompat(data) ==
  [parentNodeId |->
     Coalesce([i \in 1..Len(ParentAliases) |-> Member(data, ParentAliases[i])]),
   response |->
     Coalesce(<<Member(data, "response"),
                Val([type |-> Member(data, "type"),
                     content |-> Member(data, "content"),
                     attachments |->
                       IF Member(data, "attachments") \in {Null, Undefined}
                         THEN Val(<<>>) ELSE data.attachments])>>),
   retrievalWeight |->
     Coalesce(<<Member(data, "retrievalWeight"),
                Member(data, "retrieval_weight"), Val("0.7")>>),
   filterTags |->
     Coalesce(<<Member(data, "filterTags"), Member(data, "filter_tags"),
                Val(<<>>)>>)]

\* the body one of the two modules posts
PostedBy(helper, data) ==
  IF helper = "compat" THEN submitInteractionCompat(data)
  ELSE submitInteraction(data)

\* if (newNodes.length > 0) setNodes(prev => [...prev, ...newNodes])
MergeNodes(prev, newNodes) ==
  IF Len(newNodes) > 0 THEN prev \o newNodes ELSE prev

\* if (newEdges.length > 0) setEdges(prev => [...prev, ...newEdges])
MergeEdges(prev, newEdges) ==
  IF Len(newEdges) > 0 THEN prev \o newEdges ELSE prev

\* what a call of handleNodeClick(n) leaves in lastSelect
Selected(keep, n) == IF keep THEN n ELSE lastSelect

\* the loading and error screens replace the whole view
ViewRendered == mounted /\ ~loading /\ error = ""

\* the view as the given values of loading and error make it, with lists
\* of the given kinds: nodes.map(...) in the step list and edges.map(...)
\* in the canvas throw on anything but an array, and with no error
\* boundary above the page a render that throws takes the page out of the
\* tree
RenderThrows(isLoading, err, nType, eType) ==
  /\ ~isLoading
  /\ err = ""
  /\ (nType # "array" \/ eType # "array")

\* the reply form exists only on the detail tab of a node awaiting input
FormRendered ==
  /\ ViewRendered
  /\ rightPanelTab = "detail"
  /\ activeNode # NoNode
  /\ activeNode.status = "AWAITING_USER_INPUT"

\* ------------------------------------------------------------------- Init
\* the component after its first render, before any effect has run
Constructed ==
  /\ server = "PROCESSING"
  /\ snaps = [load |-> "PROCESSING", refresh |-> "PROCESSING"]
  /\ mounted = TRUE
  /\ effectRan = FALSE
  /\ interval = 0
  /\ caseData = "none"
  /\ nodes = <<>>
  /\ edges = <<>>
  /\ nodesType = "array"
  /\ edgesType = "array"
  /\ activeNode = NoNode
  /\ loading = TRUE
  /\ processing = FALSE
  /\ error = ""
  /\ userInput = <<>>
  /\ attachments = <<>>
  /\ rightPanelTab = "detail"
  /\ analysisLoading = FALSE
  /\ analysisResult = "none"
  /\ analysisError = ""
  /\ loadReq = FALSE
  /\ refreshReqs = 0
  /\ postReqs = 0
  /\ selectTimers = {}
  /\ detailReqs = {}
  /\ analyzeReq = FALSE
  /\ pollTimer = 0
  /\ pollReq = 0
  /\ pollElapsed = 0
  /\ getIssued = FALSE
  /\ ev = NoEvent
  /\ stale = NoStale
  /\ captured = FALSE
  /\ routeChanges = 0
  /\ lastSelect = "none"

\* a view mounted on an existing case, or without a route parameter
Init == id \in CaseIds \ {"undefined"} /\ Constructed

\* a view mounted with any value of the route parameter
InitRoute == id \in CaseIds /\ Constructed

\* ---------------------------------------------------------------- actions
\* useEffect(() => { if (id) { loadCaseData(); setInterval(...) } }, [id])
MountEffect ==
  /\ mounted
  /\ ~effectRan
  /\ effectRan' = TRUE
  /\ IF id # ""
       THEN /\ loading' = TRUE
            /\ loadReq' = TRUE
            /\ interval' = interval + 1
            /\ getIssued' = TRUE
       ELSE UNCHANGED <<loading, loadReq, interval, getIssued>>
  /\ snaps' = IF id # "" THEN [snaps EXCEPT !.load = server] ELSE snaps
  /\ captured' = IF id # "" THEN processing ELSE captured
  /\ ev' = NoEvent
  /\ UNCHANGED <<id, lastSelect, stale, routeChanges, server, mounted, graphVars, activeNode, processing,
                 error, formVars, rightPanelTab, analysisVars, refreshReqs,
                 postReqs, selectTimers, detailReqs>>

\* the page leaves the tree (navigation away): the cleanup of the [id]
\* effect runs, which is clearInterval(interval) and nothing else
Unmount ==
  /\ mounted
  /\ effectRan
  /\ mounted' = FALSE
  /\ interval' = IF id # "" THEN interval - 1 ELSE interval
  /\ ev' = NoEvent
  /\ UNCHANGED <<id, lastSelect, routeVars, server, snaps, effectRan, graphVars, activeNode, loading, processing,
                 error, formVars, rightPanelTab, analysisVars, loadReq,
                 refreshReqs, postReqs, selectTimers, detailReqs, getIssued>>

\* the router moves the mounted view to another case: the same component
\* renders with the new id, the cleanup of the previous [id] effect clears
\* its interval, and the effect runs again: loadCaseData() for the new id
\* and a new interval, whose callback closes over the processing constant
\* of this render.  The calls under way for the previous id stay under way
ChangeId ==
  /\ mounted
  /\ effectRan
  /\ id \in RouteIds
  /\ routeChanges < MaxRouteChanges
  /\ routeChanges' = routeChanges + 1
  /\ \E c \in RouteIds \ {id} : id' = c
  /\ stale' = [stale EXCEPT
                 !.loads[id] = @ + (IF loadReq THEN 1 ELSE 0),
                 !.refreshes[id] = @ + refreshReqs]
  /\ interval' = (interval - 1) + 1
  /\ captured' = processing
  /\ loading' = TRUE
  /\ loadReq' = TRUE
  /\ refreshReqs' = 0
  /\ snaps' = [snaps EXCEPT !.load = server]
  /\ getIssued' = TRUE
  /\ ev' = NoEvent
  /\ UNCHANGED <<lastSelect, server, mounted, effectRan, graphVars, activeNode,
                 processing, error, formVars, rightPanelTab, analysisVars,
                 postReqs, selectTimers, detailReqs>>

\* a loadCaseData that resets the error when it starts over
LoadAppliedClearing(case, nodeBodies, edgeBodies, keep) ==
  /\ \E nv \in {UnwrapList(nb) : nb \in nodeBodies},
        evl \in {UnwrapList(eb) : eb \in edgeBodies} :
       LET err == IF nv.type = "array" THEN "" ELSE "loadFailed" IN
       /\ caseData' = SetState(caseData, case)
       /\ nodes' = SetState(nodes, nv.list)
       /\ edges' = SetState(edges, evl.list)
       /\ nodesType' = SetState(nodesType, nv.type)
       /\ edgesType' = SetState(edgesType, evl.type)
       /\ detailReqs' = IF nv.type = "array" /\ nv.list # <<>>
                          THEN detailReqs \cup {LastOf(nv.list).id}
                          ELSE detailReqs
       /\ lastSelect' = IF nv.type = "array" /\ nv.list # <<>>
                          THEN Selected(keep, LastOf(nv.list).id)
                          ELSE lastSelect
       /\ error' = SetState(error, err)
       /\ IF mounted /\ RenderThrows(FALSE, err, nv.type, evl.type)
            THEN mounted' = FALSE /\ interval' = interval - 1
            ELSE UNCHANGED <<mounted, interval>>
  /\ loading' = SetState(loading, FALSE)
  /\ ev' = NoEvent
  /\ UNCHANGED <<id, captured, routeChanges, server, snaps, effectRan,
                 activeNode, processing, formVars, rightPanelTab,
                 analysisVars, refreshReqs, postReqs, selectTimers,
                 getIssued>>

\* loadCaseData after its await, for the case it was called for: the three
\* GETs succeeded, with bodies out of the given sets.  The three setters
\* run, then .slice(-1) of the node value: on an array it gives the last
\* node, which is selected; on another truthy value it throws, and the
\* catch block sets the error
LoadApplied(case, nodeBodies, edgeBodies, keep) ==
  /\ \E nv \in {UnwrapList(nb) : nb \in nodeBodies},
        evl \in {UnwrapList(eb) : eb \in edgeBodies} :
       LET err == IF nv.type = "array" THEN error ELSE "loadFailed" IN
       /\ caseData' = SetState(caseData, case)
       /\ nodes' = SetState(nodes, nv.list)
       /\ edges' = SetState(edges, evl.list)
       /\ nodesType' = SetState(nodesType, nv.type)
       /\ edgesType' = SetState(edgesType, evl.type)
       /\ detailReqs' = IF nv.type = "array" /\ nv.list # <<>>
                          THEN detailReqs \cup {LastOf(nv.list).id}
                          ELSE detailReqs
       /\ lastSelect' = IF nv.type = "array" /\ nv.list # <<>>
                          THEN Selected(keep, LastOf(nv.list).id)
                          ELSE lastSelect
       /\ error' = SetState(error, err)
       /\ IF mounted /\ RenderThrows(FALSE, err, nv.type, evl.type)
            THEN mounted' = FALSE /\ interval' = interval - 1
            ELSE UNCHANGED <<mounted, interval>>
  /\ loading' = SetState(loading, FALSE)
  /\ ev' = NoEvent
  /\ UNCHANGED <<id, captured, routeChanges, server, snaps, effectRan,
                 activeNode, processing, formVars, rightPanelTab,
                 analysisVars, refreshReqs, postReqs, selectTimers,
                 getIssued>>

\* the loadCaseData call of the current [id] effect succeeded
LoadOkOn(nodeBodies, edgeBodies) ==
  /\ loadReq
  /\ loadReq' = FALSE
  /\ UNCHANGED stale
  /\ LoadApplied(id, nodeBodies, edgeBodies, FALSE)

\* loadCaseData answered with a list, enveloped or bare
LoadOk == LoadOkOn(NodeBodies, EdgeBodies)

\* a loadCaseData call made before the route changed is answered: nothing
\* cancels it and nothing compares its case with the current id
StaleLoadOkOn(nodeBodies, edgeBodies) ==
  \E c \in RouteIds :
    /\ stale.loads[c] > 0
    /\ stale' = [stale EXCEPT !.loads[c] = @ - 1]
    /\ UNCHANGED loadReq
    /\ LoadApplied(c, nodeBodies, edgeBodies, FALSE)

\* a late loadCaseData answered with a list, enveloped or bare
StaleLoadOk == StaleLoadOkOn(NodeBodies, EdgeBodies)

\* loadCaseData after its await: one of the three GETs failed
LoadRejected ==
  /\ error' = SetState(error, "loadFailed")
  /\ loading' = SetState(loading, FALSE)
  /\ ev' = NoEvent
  /\ UNCHANGED <<id, lastSelect, captured, routeChanges, server, snaps, mounted,
                 effectRan, interval, graphVars, activeNode, processing,
                 formVars, rightPanelTab, analysisVars, refreshReqs,
                 postReqs, selectTimers, detailReqs, getIssued>>

\* the loadCaseData call of the current [id] effect failed
LoadFail ==
  /\ loadReq
  /\ loadReq' = FALSE
  /\ UNCHANGED stale
  /\ LoadRejected

\* a loadCaseData call made before the route changed failed
StaleLoadFail ==
  \E c \in RouteIds :
    /\ stale.loads[c] > 0
    /\ stale' = [stale EXCEPT !.loads[c] = @ - 1]
    /\ UNCHANGED loadReq
    /\ LoadRejected

\* the interval callback: if (!processing) refreshNodes(), where processing
\* is the constant of the render whose [id] effect registered the interval
Tick ==
  /\ interval > 0
  /\ ~captured
  /\ refreshReqs < MaxRefresh
  /\ refreshReqs' = refreshReqs + 1
  /\ snaps' = [snaps EXCEPT !.refresh = server]
  /\ getIssued' = TRUE
  /\ ev' = NoEvent
  /\ UNCHANGED <<id, lastSelect, routeVars, server, mounted, effectRan, interval, graphVars, activeNode, loading,
                 processing, error, formVars, rightPanelTab, analysisVars,
                 loadReq, postReqs, selectTimers, detailReqs>>

\* refreshNodes after its await: both GETs succeeded, with bodies out of
\* the given sets
RefreshApplied(nodeBodies, edgeBodies) ==
  /\ \E nv \in {UnwrapList(nb) : nb \in nodeBodies},
        evl \in {UnwrapList(eb) : eb \in edgeBodies} :
       /\ nodes' = SetState(nodes, nv.list)
       /\ edges' = SetState(edges, evl.list)
       /\ nodesType' = SetState(nodesType, nv.type)
       /\ edgesType' = SetState(edgesType, evl.type)
       /\ IF mounted /\ RenderThrows(loading, error, nv.type, evl.type)
            THEN mounted' = FALSE /\ interval' = interval - 1
            ELSE UNCHANGED <<mounted, interval>>
  /\ ev' = NoEvent
  /\ UNCHANGED <<id, lastSelect, captured, routeChanges, server, snaps, effectRan,
                 caseData, activeNode, loading, processing, error, formVars,
                 rightPanelTab, analysisVars, loadReq, postReqs,
                 selectTimers, detailReqs, getIssued>>

\* a refreshNodes call of the current interval succeeded
RefreshOkOn(nodeBodies, edgeBodies) ==
  /\ refreshReqs > 0
  /\ refreshReqs' = refreshReqs - 1
  /\ UNCHANGED stale
  /\ RefreshApplied(nodeBodies, edgeBodies)

\* refreshNodes answered with lists, enveloped or bare
RefreshOk == RefreshOkOn(NodeBodies, EdgeBodies)

\* a refreshNodes call made before the route changed is answered
StaleRefreshOkOn(nodeBodies, edgeBodies) ==
  \E c \in RouteIds :
    /\ stale.refreshes[c] > 0
    /\ stale' = [stale EXCEPT !.refreshes[c] = @ - 1]
    /\ UNCHANGED refreshReqs
    /\ RefreshApplied(nodeBodies, edgeBodies)

\* a late refreshNodes answered with lists, enveloped or bare
StaleRefreshOk == StaleRefreshOkOn(NodeBodies, EdgeBodies)

\* the GETs of a refresh that can be the ones to fail
FailedGets == {"nodes", "edges", "both"}

\* a refresh that applies what the GETs that succeeded brought
RefreshSettledPartly(e) ==
  /\ ev' = e
  /\ \E nl \in NodeLists, el \in EdgeLists :
       /\ nodes' = (IF e.status = "edges" THEN nl ELSE nodes)
       /\ edges' = (IF e.status = "nodes" THEN el ELSE edges)
  /\ UNCHANGED <<id, lastSelect, captured, routeChanges, server, snaps, mounted,
                 effectRan, interval, caseData, nodesType, edgesType,
                 activeNode, loading, processing, error, formVars,
                 rightPanelTab, analysisVars, loadReq, postReqs,
                 selectTimers, detailReqs, getIssued>>

\* refreshNodes after its await: a GET failed, and Promise.all rejects
\* whichever of the two it was: console.error only.  e is what the step
\* leaves in ev
RefreshRejected(e) ==
  /\ ev' = e
  /\ UNCHANGED <<id, lastSelect, captured, routeChanges, server, snaps, mounted,
                 effectRan, interval, graphVars, activeNode, loading,
                 processing, error, formVars, rightPanelTab, analysisVars,
                 loadReq, postReqs, selectTimers, detailReqs, getIssued>>

\* a refreshNodes call of the current interval failed
RefreshFail ==
  /\ refreshReqs > 0
  /\ refreshReqs' = refreshReqs - 1
  /\ UNCHANGED stale
  /\ RefreshRejected(NoEvent)

\* a refreshNodes call of the current interval failed, with the GET that
\* failed on record
RefreshFailOf ==
  /\ refreshReqs > 0
  /\ refreshReqs' = refreshReqs - 1
  /\ UNCHANGED stale
  /\ \E failed \in FailedGets :
       RefreshRejected(Event("refreshFailed", NoResp, "", NoPayload, failed))

\* a refreshNodes call made before the route changed failed
StaleRefreshFail ==
  \E c \in RouteIds :
    /\ stale.refreshes[c] > 0
    /\ stale' = [stale EXCEPT !.refreshes[c] = @ - 1]
    /\ UNCHANGED refreshReqs
    /\ RefreshRejected(NoEvent)

\* a click on a step of the list or on a canvas node: handleNodeClick up
\* to its await
ClickNodeOn(keep) ==
  /\ ViewRendered
  /\ \E n \in IdsOf(nodes) :
       /\ n \notin detailReqs
       /\ detailReqs' = detailReqs \cup {n}
       /\ lastSelect' = Selected(keep, n)
  /\ getIssued' = TRUE
  /\ ev' = NoEvent
  /\ UNCHANGED <<id, routeVars, server, snaps, mounted, effectRan, interval, graphVars, activeNode, loading,
                 processing, error, formVars, rightPanelTab, analysisVars,
                 loadReq, refreshReqs, postReqs, selectTimers>>

\* a click on a node
ClickNode == ClickNodeOn(FALSE)

\* handleNodeClick after the await: the detail arrived
DetailOk ==
  /\ \E n \in detailReqs, st \in Statuses :
       /\ activeNode' = SetState(activeNode, [id |-> n, status |-> st])
       /\ detailReqs' = detailReqs \ {n}
  /\ rightPanelTab' = SetState(rightPanelTab, "detail")
  /\ ev' = NoEvent
  /\ UNCHANGED <<id, lastSelect, routeVars, server, snaps, mounted, effectRan, interval, graphVars, loading, processing,
                 error, formVars, analysisVars, loadReq, refreshReqs,
                 postReqs, selectTimers, getIssued>>

\* handleNodeClick after the await: the GET failed, console.error only
DetailFail ==
  /\ \E n \in detailReqs : detailReqs' = detailReqs \ {n}
  /\ ev' = NoEvent
  /\ UNCHANGED <<id, lastSelect, routeVars, server, snaps, mounted, effectRan, interval, graphVars, activeNode, loading,
                 processing, error, formVars, rightPanelTab, analysisVars,
                 loadReq, refreshReqs, postReqs, selectTimers, getIssued>>

\* the tab buttons of the right panel
SetRightPanelTab ==
  /\ ViewRendered
  /\ \E t \in Tabs :
       /\ t # rightPanelTab
       /\ t = "analysis" => activeNode # NoNode
       /\ rightPanelTab' = t
  /\ ev' = NoEvent
  /\ UNCHANGED <<id, lastSelect, routeVars, server, snaps, mounted, effectRan, interval, graphVars, activeNode, loading,
                 processing, error, formVars, analysisVars, loadReq,
                 refreshReqs, postReqs, selectTimers, detailReqs, getIssued>>

\* typing into the reply box (disabled while processing)
SetUserInput ==
  /\ FormRendered
  /\ ~processing
  /\ \E s \in Inputs : s # userInput /\ userInput' = s
  /\ ev' = NoEvent
  /\ UNCHANGED <<id, lastSelect, routeVars, server, snaps, mounted, effectRan, interval, graphVars, activeNode, loading,
                 processing, error, attachments, rightPanelTab, analysisVars,
                 loadReq, refreshReqs, postReqs, selectTimers, detailReqs, getIssued>>

\* handleFileUpload: the upload succeeded and returned a file id
HandleFileUpload ==
  /\ FormRendered
  /\ ~processing
  /\ Len(attachments) < MaxAttachments
  /\ attachments' = Append(attachments, "f1")
  /\ ev' = NoEvent
  /\ UNCHANGED <<id, lastSelect, routeVars, server, snaps, mounted, effectRan, interval, graphVars, activeNode, loading,
                 processing, error, userInput, rightPanelTab, analysisVars,
                 loadReq, refreshReqs, postReqs, selectTimers, detailReqs, getIssued>>

\* handleUserResponse up to its await: the submit event of the reply form,
\* followed while fewer than cap POSTs are under way
HandleUserResponseUpTo(cap) ==
  /\ FormRendered
  /\ IF InputRejected(userInput, attachments)
       THEN /\ ev' = Event("handleUserResponse", NoResp, "emptyReply",
                           NoPayload, "none")
            /\ UNCHANGED <<processing, postReqs>>
       ELSE /\ postReqs < cap
            /\ processing' = TRUE
            /\ postReqs' = postReqs + 1
            /\ \E helper \in Helpers :
                 ev' = Event("handleUserResponse", NoResp, "",
                             PostedBy(helper,
                                      InteractionData(userInput, activeNode.id,
                                                      attachments)),
                             "none")
  /\ UNCHANGED <<id, lastSelect, routeVars, server, snaps, mounted, effectRan, interval, graphVars, activeNode, loading,
                 error, formVars, rightPanelTab, analysisVars, loadReq,
                 refreshReqs, selectTimers, detailReqs, getIssued>>

\* the submit event of the reply form, however it is raised
HandleUserResponse == HandleUserResponseUpTo(MaxPosts)

\* a submit button that is disabled for an empty reply only
SubmitEnabledWhileProcessing ==
  /\ FormRendered
  /\ ~InputRejected(userInput, attachments)

\* the submit button of the reply form:
\* disabled={processing || (!userInput.trim() && attachments.length === 0)}
SubmitEnabled ==
  /\ FormRendered
  /\ ~processing
  /\ ~InputRejected(userInput, attachments)

\* a click on the submit button, the only way the view raises the submit
\* event: the form has no text input for an implicit submission
ClickSubmit ==
  /\ SubmitEnabled
  /\ HandleUserResponseUpTo(MaxPosts + 1)

\* handleUserResponse after the await: the POST succeeded, with a body out
\* of the given set
SubmitOkOn(bodies, keepWire) ==
  /\ postReqs > 0
  /\ \E read \in {ReadInteraction(body, keepWire) : body \in bodies} :
       LET newNodes == read.new_nodes
           newEdges == read.new_edges IN
       /\ Len(nodes) + Len(newNodes) <= MaxNodes
       /\ Len(edges) + Len(newEdges) <= MaxEdges
       /\ nodes' = SetState(nodes, MergeNodes(nodes, newNodes))
       /\ edges' = SetState(edges, MergeEdges(edges, newEdges))
       /\ selectTimers' = IF Len(newNodes) > 0
                            THEN selectTimers \cup {LastOf(newNodes).id}
                            ELSE selectTimers
       /\ ev' = Event("submitOk", read, "", NoPayload, "none")
  /\ userInput' = SetState(userInput, <<>>)
  /\ attachments' = SetState(attachments, <<>>)
  /\ processing' = SetState(processing, FALSE)
  /\ postReqs' = postReqs - 1
  /\ UNCHANGED <<id, lastSelect, routeVars, server, snaps, mounted, effectRan, interval, caseData, nodesType,
                 edgesType, activeNode, loading,
                 error, rightPanelTab, analysisVars, loadReq, refreshReqs,
                 detailReqs, getIssued>>

\* the POST answered in the snake_case spelling, enveloped or bare
SubmitOk == SubmitOkOn(InteractionBodies, FALSE)

\* a failed POST that is sent again instead of being given up
SubmitFailRetry ==
  /\ postReqs > 0
  /\ ev' = Event("submitFailed", NoResp, "submitFailed", NoPayload, "none")
  /\ UNCHANGED <<id, lastSelect, routeVars, server, snaps, mounted, effectRan, interval, graphVars, activeNode, loading,
                 processing, error, formVars, rightPanelTab, analysisVars,
                 loadReq, refreshReqs, postReqs, selectTimers, detailReqs,
                 getIssued>>

\* a failed POST handled without the finally block
SubmitFailNoFinally ==
  /\ postReqs > 0
  /\ postReqs' = postReqs - 1
  /\ ev' = Event("submitFailed", NoResp, "submitFailed", NoPayload, "none")
  /\ UNCHANGED <<id, lastSelect, routeVars, server, snaps, mounted, effectRan, interval,
                 graphVars, activeNode, loading, processing, error, formVars,
                 rightPanelTab, analysisVars, loadReq, refreshReqs,
                 selectTimers, detailReqs, getIssued>>

\* handleUserResponse after the await: the POST failed
SubmitFail ==
  /\ postReqs > 0
  /\ processing' = SetState(processing, FALSE)
  /\ postReqs' = postReqs - 1
  /\ ev' = Event("submitFailed", NoResp, "submitFailed", NoPayload, "none")
  /\ UNCHANGED <<id, lastSelect, routeVars, server, snaps, mounted, effectRan, interval, graphVars, activeNode, loading,
                 error, formVars, rightPanelTab, analysisVars, loadReq,
                 refreshReqs, selectTimers, detailReqs, getIssued>>

\* setTimeout(() => handleNodeClick(lastNewNode.id), 500) fires
SelectTimerFireOn(keep) ==
  /\ \E n \in selectTimers :
       /\ selectTimers' = selectTimers \ {n}
       /\ detailReqs' = detailReqs \cup {n}
       /\ lastSelect' = Selected(keep, n)
  /\ getIssued' = TRUE
  /\ ev' = NoEvent
  /\ UNCHANGED <<id, routeVars, server, snaps, mounted, effectRan, interval, graphVars, activeNode, loading,
                 processing, error, formVars, rightPanelTab, analysisVars,
                 loadReq, refreshReqs, postReqs>>

\* the delayed selection of the last new node
SelectTimerFire == SelectTimerFireOn(FALSE)

\* ------------------------------------------------------- the AI analysis tab
\* the statuses pollResult tells apart (COMPLETED, FAILED, anything else)
\* and the statuses of the API: PROCESSING and AWAITING_USER_INPUT are both
\* "anything else"
AnalysisStatuses == {"COMPLETED", "FAILED", "PROCESSING", "AWAITING_USER_INPUT"}
\* the body of GET /analysis/{id}, enveloped or bare
PollBodies == [shape : Shapes, status : AnalysisStatuses]

\* handleAIAnalysis behind a button that stays enabled while the analysis
\* runs
HandleAIAnalysisEnabled ==
  /\ ViewRendered
  /\ rightPanelTab = "analysis"
  /\ IF activeNode = NoNode
       THEN /\ analysisError' = "noContent"
            /\ UNCHANGED <<analysisLoading, analysisResult, analyzeReq>>
       ELSE /\ analysisLoading' = TRUE
            /\ analysisError' = ""
            /\ analysisResult' = "none"
            /\ analyzeReq' = TRUE
  /\ ev' = NoEvent
  /\ UNCHANGED <<id, lastSelect, routeVars, server, snaps, mounted, effectRan, interval, graphVars, activeNode, loading,
                 processing, error, formVars, rightPanelTab, pollTimer,
                 pollReq, pollElapsed, loadReq, refreshReqs, postReqs,
                 selectTimers, detailReqs, getIssued>>

\* handleAIAnalysis up to its await: the analyse button, disabled while
\* analysisLoading
HandleAIAnalysis ==
  /\ ViewRendered
  /\ rightPanelTab = "analysis"
  /\ ~analysisLoading
  /\ IF activeNode = NoNode
       THEN /\ analysisError' = "noContent"
            /\ UNCHANGED <<analysisLoading, analysisResult, analyzeReq>>
       ELSE /\ analysisLoading' = TRUE
            /\ analysisError' = ""
            /\ analysisResult' = "none"
            /\ analyzeReq' = TRUE
  /\ ev' = NoEvent
  /\ UNCHANGED <<id, lastSelect, routeVars, server, snaps, mounted, effectRan, interval, graphVars, activeNode, loading,
                 processing, error, formVars, rightPanelTab, pollTimer,
                 pollReq, pollElapsed, loadReq, refreshReqs, postReqs,
                 selectTimers, detailReqs, getIssued>>

\* handleAIAnalysis after the await: analyzeLog answered, with or without
\* an analysis_id; with one the first pollResult is set 1000 ms ahead
AnalyzeOk ==
  /\ analyzeReq
  /\ analyzeReq' = FALSE
  /\ \E hasAnalysisId \in BOOLEAN :
       IF hasAnalysisId
         THEN /\ pollTimer' = pollTimer + 1
              /\ pollElapsed' = PollInitialDelayMs
              /\ UNCHANGED <<analysisLoading, analysisError>>
         ELSE /\ analysisError' = SetState(analysisError, "analyzeRejected")
              /\ analysisLoading' = SetState(analysisLoading, FALSE)
              /\ UNCHANGED <<pollTimer, pollElapsed>>
  /\ ev' = NoEvent
  /\ UNCHANGED <<id, lastSelect, routeVars, server, snaps, mounted, effectRan, interval, graphVars, activeNode, loading,
                 processing, error, formVars, rightPanelTab, analysisResult,
                 pollReq, loadReq, refreshReqs, postReqs, selectTimers,
                 detailReqs, getIssued>>

\* handleAIAnalysis after the await: analyzeLog failed
AnalyzeFail ==
  /\ analyzeReq
  /\ analyzeReq' = FALSE
  /\ analysisError' = SetState(analysisError, "analyzeFailed")
  /\ analysisLoading' = SetState(analysisLoading, FALSE)
  /\ ev' = NoEvent
  /\ UNCHANGED <<id, lastSelect, routeVars, server, snaps, mounted, effectRan, interval, graphVars, activeNode, loading,
                 processing, error, formVars, rightPanelTab, analysisResult,
                 pollTimer, pollReq, pollElapsed, loadReq, refreshReqs,
                 postReqs, selectTimers, detailReqs, getIssued>>

\* the timer runs out: pollResult up to its await
PollFire ==
  /\ pollTimer > 0
  /\ pollTimer' = pollTimer - 1
  /\ pollReq' = pollReq + 1
  /\ getIssued' = TRUE
  /\ ev' = NoEvent
  /\ UNCHANGED <<id, lastSelect, routeVars, server, snaps, mounted, effectRan, interval, graphVars, activeNode, loading,
                 processing, error, formVars, rightPanelTab, analysisLoading,
                 analysisResult, analysisError, analyzeReq, pollElapsed,
                 loadReq, refreshReqs, postReqs, selectTimers, detailReqs>>

\* result?.data?.status : only an enveloped body has a data member
StatusOf(body) ==
  IF body.shape = "envelope" THEN body.status ELSE "undefined"

\* pollResult after the await: getAnalysisResult answered
PollOk ==
  /\ pollReq > 0
  /\ pollReq' = pollReq - 1
  /\ \E body \in PollBodies :
       /\ IF StatusOf(body) = "COMPLETED"
            THEN /\ analysisResult' = SetState(analysisResult, "result")
                 /\ analysisLoading' = SetState(analysisLoading, FALSE)
                 /\ UNCHANGED <<analysisError, pollTimer, pollElapsed>>
          ELSE IF StatusOf(body) = "FAILED"
            THEN /\ analysisError' = SetState(analysisError, "analysisFailed")
                 /\ analysisLoading' = SetState(analysisLoading, FALSE)
                 /\ UNCHANGED <<analysisResult, pollTimer, pollElapsed>>
            ELSE /\ pollElapsed + PollIntervalMs <= MaxPollElapsedMs
                 /\ pollTimer' = pollTimer + 1
                 /\ pollElapsed' = pollElapsed + PollIntervalMs
                 /\ UNCHANGED <<analysisResult, analysisError, analysisLoading>>
       /\ ev' = Event("pollOk", NoResp, "", NoPayload, body.status)
  /\ UNCHANGED <<id, lastSelect, routeVars, server, snaps, mounted, effectRan, interval, graphVars, activeNode, loading,
                 processing, error, formVars, rightPanelTab, analyzeReq,
                 loadReq, refreshReqs, postReqs, selectTimers, detailReqs,
                 getIssued>>

\* pollResult after the await: getAnalysisResult failed
PollFail ==
  /\ pollReq > 0
  /\ pollReq' = pollReq - 1
  /\ analysisError' = SetState(analysisError, "pollFailed")
  /\ analysisLoading' = SetState(analysisLoading, FALSE)
  /\ ev' = NoEvent
  /\ UNCHANGED <<id, lastSelect, routeVars, server, snaps, mounted, effectRan, interval, graphVars, activeNode, loading,
                 processing, error, formVars, rightPanelTab, analysisResult,
                 analyzeReq, pollTimer, pollElapsed, loadReq, refreshReqs,
                 postReqs, selectTimers, detailReqs, getIssued>>

\* ---------------------------------------------------------- specifications
\* the graph of a case and the reply form
Next ==
  \/ MountEffect
  \/ LoadOk
  \/ LoadFail
  \/ Tick
  \/ RefreshOk
  \/ RefreshFail
  \/ ClickNode
  \/ DetailOk
  \/ DetailFail
  \/ SetUserInput
  \/ HandleFileUpload
  \/ HandleUserResponse
  \/ SubmitOk
  \/ SubmitFail
  \/ SelectTimerFire

Spec == Init /\ [][Next]_vars

\* the mount, the initial load and the refresh interval, for every value of
\* the route parameter
NextRoute ==
  \/ MountEffect
  \/ LoadOk
  \/ LoadFail
  \/ Tick
  \/ RefreshOk
  \/ RefreshFail

SpecRoute == InitRoute /\ [][NextRoute]_vars

\* a view mounted on an existing case
InitCase == id = "c1" /\ Constructed

\* loadCaseData answered with bodies of any kind
LoadWire == LoadOkOn(WireNodeBodies, WireEdgeBodies)

\* refreshNodes answered with bodies of any kind
RefreshWire == RefreshOkOn(WireNodeBodies, WireEdgeBodies)

\* the POST answered in either spelling, enveloped or bare
SubmitWire == SubmitOkOn(WireInteractionBodies, TRUE)

\* the case view in front of a server that answers in every shape and
\* spelling
NextWire ==
  \/ MountEffect
  \/ LoadWire
  \/ LoadFail
  \/ Tick
  \/ RefreshWire
  \/ RefreshFail
  \/ DetailOk
  \/ DetailFail
  \/ SetUserInput
  \/ HandleUserResponse
  \/ SubmitWire
  \/ SubmitFail
  \/ SelectTimerFire

SpecWire == InitCase /\ [][NextWire]_vars

\* the initial load, the selection it makes and the refresh interval, with
\* no click of the user
NextLoad ==
  \/ NextRoute
  \/ DetailOk
  \/ DetailFail

SpecLoad == InitCase /\ [][NextLoad]_vars

\* the content the backend holds for a node: empty while the AI is still
\* generating it
ContentAt(st) == IF st = "PROCESSING" THEN "" ELSE "analysis"

\* the node of the case as the backend holds it in a given status
ServedNode(st) == [id |-> "n1", status |-> st, content |-> ContentAt(st)]

\* the body of GET nodes read at the backend when the node had status st
ServedNodes(st) == { [shape |-> "envelope", list |-> <<ServedNode(st)>>] }

\* the backend finishes a step of the node: a node leaves PROCESSING for
\* AWAITING_USER_INPUT or COMPLETED, an awaited input leads to COMPLETED,
\* and no node goes back
ServerAdvance ==
  /\ \E st \in Statuses \ {"PROCESSING"} :
       /\ server # "COMPLETED"
       /\ st # server
       /\ server' = st
  /\ ev' = NoEvent
  /\ UNCHANGED <<id, lastSelect, routeVars, snaps, mounted, effectRan, interval, graphVars,
                 activeNode, loading, processing, error, formVars,
                 rightPanelTab, analysisVars, loadReq, refreshReqs, postReqs,
                 selectTimers, detailReqs, getIssued>>

\* loadCaseData answered with what its GET read at the backend
LoadServed == LoadOkOn(ServedNodes(snaps.load), EdgeBodies)

\* refreshNodes answered with what its GET read at the backend
RefreshServed == RefreshOkOn(ServedNodes(snaps.refresh), EdgeBodies)

\* the node list of the view and the node of the backend: every response
\* carries the status and the content the backend had when the request
\* was made, and responses arrive in any order
NextFields ==
  \/ MountEffect
  \/ ServerAdvance
  \/ LoadServed
  \/ LoadFail
  \/ Tick
  \/ RefreshServed
  \/ RefreshFail
  \/ DetailOk
  \/ DetailFail

SpecFields == InitCase /\ [][NextFields]_vars

\* the graph of a case and the reply form of a page that can leave the tree
NextTeardown ==
  \/ Next
  \/ Unmount

SpecTeardown == InitCase /\ [][NextTeardown]_vars

\* a loaded case with its only node selected, as the load and the first
\* node detail leave it
InitAnalysis ==
  /\ id = "c1"
  /\ server = "PROCESSING"
  /\ snaps = [load |-> "PROCESSING", refresh |-> "PROCESSING"]
  /\ mounted = TRUE
  /\ effectRan = TRUE
  /\ interval = 1
  /\ caseData = "c1"
  /\ nodes = <<Node("n1")>>
  /\ edges = <<>>
  /\ nodesType = "array"
  /\ edgesType = "array"
  /\ activeNode = [id |-> "n1", status |-> "COMPLETED"]
  /\ loading = FALSE
  /\ processing = FALSE
  /\ error = ""
  /\ userInput = <<>>
  /\ attachments = <<>>
  /\ rightPanelTab = "detail"
  /\ analysisLoading = FALSE
  /\ analysisResult = "none"
  /\ analysisError = ""
  /\ loadReq = FALSE
  /\ refreshReqs = 0
  /\ postReqs = 0
  /\ selectTimers = {}
  /\ detailReqs = {}
  /\ analyzeReq = FALSE
  /\ pollTimer = 0
  /\ pollReq = 0
  /\ pollElapsed = 0
  /\ getIssued = TRUE
  /\ ev = NoEvent
  /\ stale = NoStale
  /\ captured = FALSE
  /\ routeChanges = 0
  /\ lastSelect = "none"

\* the right panel and the analysis poll loop
NextAnalysis ==
  \/ SetRightPanelTab
  \/ HandleAIAnalysis
  \/ AnalyzeOk
  \/ AnalyzeFail
  \/ PollFire
  \/ PollOk
  \/ PollFail

SpecAnalysis == InitAnalysis /\ [][NextAnalysis]_vars

\* the view while the router moves it from one case to another: the [id]
\* effect and what it starts, the selection the load makes, and the calls
\* of the previous case that settle late
NextNavigate ==
  \/ MountEffect
  \/ ChangeId
  \/ LoadOk
  \/ LoadFail
  \/ StaleLoadOk
  \/ StaleLoadFail
  \/ Tick
  \/ RefreshOk
  \/ RefreshFail
  \/ StaleRefreshOk
  \/ StaleRefreshFail
  \/ DetailOk
  \/ DetailFail

SpecNavigate == InitCase /\ [][NextNavigate]_vars

\* a late refreshNodes answered with what the backend holds
StaleRefreshServed == StaleRefreshOkOn(ServedNodes(snaps.refresh), EdgeBodies)

\* the timers of a loaded view that the router moves to another case: the
\* refresh interval of the [id] effect and the poll loop of the analysis
\* panel, whose state the move leaves alone
NextTimers ==
  \/ ChangeId
  \/ LoadServed
  \/ LoadFail
  \/ Tick
  \/ RefreshServed
  \/ RefreshFail
  \/ StaleRefreshServed
  \/ StaleRefreshFail
  \/ DetailOk
  \/ DetailFail
  \/ SetRightPanelTab
  \/ HandleAIAnalysis
  \/ AnalyzeOk
  \/ AnalyzeFail
  \/ PollFire
  \/ PollOk
  \/ PollFail

SpecTimers == InitAnalysis /\ [][NextTimers]_vars

\* the load and the refresh interval, with the GET a failed refresh failed
\* on kept on record
NextRefresh ==
  \/ MountEffect
  \/ LoadOk
  \/ LoadFail
  \/ Tick
  \/ RefreshOk
  \/ RefreshFailOf
  \/ DetailOk
  \/ DetailFail

SpecRefresh == InitCase /\ [][NextRefresh]_vars

\* the graph of a case and the reply form of a view that the router moves
\* to another case
NextReload ==
  \/ Next
  \/ ChangeId
  \/ StaleLoadOk
  \/ StaleLoadFail
  \/ StaleRefreshOk
  \/ StaleRefreshFail

SpecReload == InitCase /\ [][NextReload]_vars

\* the graph of a case and the reply form as the rendered controls let the
\* user drive it
NextForm ==
  \/ MountEffect
  \/ LoadOk
  \/ LoadFail
  \/ Tick
  \/ RefreshOk
  \/ RefreshFail
  \/ ClickNode
  \/ DetailOk
  \/ DetailFail
  \/ SetUserInput
  \/ HandleFileUpload
  \/ ClickSubmit
  \/ SubmitOk
  \/ SubmitFail
  \/ SelectTimerFire

SpecForm == InitCase /\ [][NextForm]_vars

\* the same, with every POST settling in the end, by an answer or by an
\* error
SpecFormFair == SpecForm /\ WF_vars(SubmitOk \/ SubmitFail)

\* the load, its selection of the last node, kept in lastSelect
LoadOkSeen ==
  /\ loadReq
  /\ loadReq' = FALSE
  /\ UNCHANGED stale
  /\ LoadApplied(id, NodeBodies, EdgeBodies, TRUE)

\* a click on a node, kept in lastSelect
ClickNodeSeen == ClickNodeOn(TRUE)

\* the delayed selection of the last new node, kept in lastSelect
SelectTimerFireSeen == SelectTimerFireOn(TRUE)

\* the selections of the view: the one the load makes, the clicks and the
\* one after a reply, with every GET of a node detail answered
NextSelect ==
  \/ MountEffect
  \/ LoadOkSeen
  \/ LoadFail
  \/ ClickNodeSeen
  \/ DetailOk
  \/ SetUserInput
  \/ HandleFileUpload
  \/ ClickSubmit
  \/ SubmitOk
  \/ SubmitFail
  \/ SelectTimerFireSeen

SpecSelect == InitCase /\ [][NextSelect]_vars

\* ------------------------------------------------------------------ claims
\* position of the first entry of list s whose id is x
FirstIndex(s, x) ==
  CHOOSE i \in 1..Len(s) : s[i].id = x /\ \A j \in 1..(i - 1) : s[j].id # x

\* a text made of blanks only (the empty text included)
AllWhitespace(text) == \A i \in 1..Len(text) : text[i] = " "

\* C1: in every reachable state of the case view no two entries of the node
\* list share an id and no two entries of the edge list share an id.
C1_NoDuplicateIds == NoDupIds(nodes) /\ NoDupIds(edges)

\* C2: merge is idempotent: an interaction response all of whose nodes and
\* edges the graph already holds (as it does once the same pair has been
\* merged, or once a load or refresh has delivered them) leaves the node
\* list and the edge list as they are.
C2_MergeIdempotent ==
  [][ ( /\ ev'.op = "submitOk"
        /\ IdsOf(ev'.body.new_nodes) \subseteq IdsOf(nodes)
        /\ IdsOf(ev'.body.new_edges) \subseteq IdsOf(edges) )
      => (nodes' = nodes /\ edges' = edges) ]_vars

\* C3: no dangling edges: every edge of the edge list has its source and
\* its target among the ids of the node list.
C3_NoDanglingEdges ==
  \A i \in 1..Len(edges) :
    edges[i].source \in IdsOf(nodes) /\ edges[i].target \in IdsOf(nodes)

\* C4: order preservation: the node list stays in first-arrival order, that
\* is, no step changes the relative order of two nodes the list already
\* holds, and a node that arrives is placed after every node already held.
C4_OrderPreserved ==
  [][ /\ \A a, b \in IdsOf(nodes) \cap IdsOf(nodes') :
           FirstIndex(nodes, a) < FirstIndex(nodes, b)
             => FirstIndex(nodes', a) < FirstIndex(nodes', b)
      /\ \A a \in IdsOf(nodes) \cap IdsOf(nodes'),
            c \in IdsOf(nodes') \ IdsOf(nodes) :
           FirstIndex(nodes', a) < FirstIndex(nodes', c) ]_vars

\* C5: nodes are append-only: a node id that is in the node list is still
\* in it after every step.
C5_NodesAppendOnly == [][ IdsOf(nodes) \subseteq IdsOf(nodes') ]_vars

\* C6: poller termination: a poll loop has a check pending or in flight
\* only within 120 seconds of its start; after that it has ended.
C6_PollerTerminates ==
  (pollTimer > 0 \/ pollReq > 0) => pollElapsed <= 120 * 1000

\* C7: a submission whose text is empty or blank and that has no attachment
\* issues no POST, leaves the processing flag false and leaves nodes, edges,
\* text and attachments as they are.
C7_EmptySubmissionRejected ==
  [][ ( /\ ev'.op = "handleUserResponse"
        /\ AllWhitespace(userInput)
        /\ Len(attachments) = 0 )
      => ( /\ postReqs' = postReqs
           /\ ~processing /\ ~processing'
           /\ UNCHANGED <<nodes, edges, userInput, attachments>> ) ]_vars

\* C7 witness: a blank reply without attachments has just been rejected.
C7_Witness ==
  /\ ev.op = "handleUserResponse"
  /\ ev.alert = "emptyReply"
  /\ userInput = <<" ">>
  /\ Len(attachments) = 0
  /\ postReqs = 0

C9_UndefinedIdNoGet ==
  id = "undefined" => (~getIssued /\ (effectRan => error # ""))

\* C10: after a successful response that carries new nodes and a
\* processing_node_id the new nodes are in the node list, a status check of
\* exactly that node is scheduled and the view is still processing; after
\* one without processing_node_id the view is idle.
C10_PollArmedOnProcessingId ==
  ev.op = "submitOk" =>
    IF ev.body.processing_node_id # "none"
      THEN ev.body.new_nodes # <<>> =>
             /\ IdsOf(ev.body.new_nodes) \subseteq IdsOf(nodes)
             /\ selectTimers = {ev.body.processing_node_id}
             /\ processing
      ELSE ~processing

\* C11: whatever the bodies of GET nodes and GET edges are, the load and
\* the refresh leave an array in the nodes state and in the edges state, and
\* no render of the page throws on them (the page stays in the tree).
C11_ListsAreArrays ==
  /\ nodesType = "array"
  /\ edgesType = "array"
  /\ mounted

\* C12: while an interaction submission is in flight (processing is set
\* and the POST has not settled) no step starts a background refresh.
C12_NoRefreshWhileSubmitting ==
  [][ (processing /\ postReqs > 0) => refreshReqs' <= refreshReqs ]_vars

\* C13: once the page has left the tree no step of the case view issues a
\* GET (a refresh, a node detail, a poll of the analysis) and none changes
\* nodes, edges, the active node or the analysis state.
C13_QuietAfterTeardown ==
  [][ ~mounted =>
        /\ refreshReqs' <= refreshReqs
        /\ detailReqs' \subseteq detailReqs
        /\ pollReq' <= pollReq
        /\ UNCHANGED <<nodes, edges, activeNode, analysisLoading,
                       analysisResult, analysisError>> ]_vars

\* C14: the nodes and edges an enveloped interaction result carries are
\* what handleUserResponse takes as new nodes and new edges, and are in the
\* node list and the edge list afterwards, in either spelling of the fields.
C14_BothSpellingsMerged ==
  [][ ( /\ mounted
        /\ ev'.op = "submitOk"
        /\ ev'.body.wire.shape = "envelope" )
      => ( /\ ev'.body.new_nodes = ev'.body.wire.new_nodes
           /\ ev'.body.new_edges = ev'.body.wire.new_edges
           /\ IdsOf(ev'.body.wire.new_nodes) \subseteq IdsOf(nodes')
           /\ IdsOf(ev'.body.wire.new_edges) \subseteq IdsOf(edges') ) ]_vars

\* C15: an interaction result without envelope has the effect of the same
\* result inside { data: ... }: the nodes and edges it carries under
\* new_nodes and new_edges are in the node list and the edge list afterwards.
C15_BareBodyMerged ==
  [][ ( /\ mounted
        /\ ev'.op = "submitOk"
        /\ ev'.body.wire.shape = "bare"
        /\ ev'.body.wire.spelling = "snake" )
      => ( /\ IdsOf(ev'.body.wire.new_nodes) \subseteq IdsOf(nodes')
           /\ IdsOf(ev'.body.wire.new_edges) \subseteq IdsOf(edges') ) ]_vars

\* C16: the body posted for a reply has the key parentNodeId, holding the
\* id of the node replied to (the only parent alias the view passes), and
\* a response assembled from the type, the text and the attachments.
C16_CanonicalPayload ==
  (ev.op = "handleUserResponse" /\ ev.alert = "") =>
    /\ "parentNodeId" \in DOMAIN ev.posted
    /\ ev.posted.parentNodeId = Val(activeNode.id)
    /\ "response" \in DOMAIN ev.posted
    /\ ev.posted.response =
         Val([type |-> Val("USER_RESPONSE"), content |-> Val(userInput),
              attachments |-> Val(attachments)])

C18_PollStopsOnFirstResult ==
  [][ (ev'.op = "pollOk" /\ ev'.status # "PROCESSING") =>
        /\ pollTimer' = 0
        /\ ~analysisLoading'
        /\ (ev'.status = "COMPLETED" => analysisResult' = "result")
        /\ interval' > 0 ]_vars

\* C19: no step changes the content of a node the node list already holds.
C19_NodesNotOverwritten ==
  [][ \A i \in 1..Len(nodes), j \in 1..Len(nodes') :
        nodes'[j].id = nodes[i].id => nodes'[j].content = nodes[i].content
    ]_vars

\* C20: no step takes a node of the node list whose status is not
\* PROCESSING back to PROCESSING.
C20_NoReturnToProcessing ==
  [][ \A i \in 1..Len(nodes), j \in 1..Len(nodes') :
        (nodes'[j].id = nodes[i].id /\ nodes[i].status # "PROCESSING")
          => nodes'[j].status # "PROCESSING" ]_vars

\* C21: a status fetch that fails during polling is swallowed: the step that
\* settles a failed getAnalysisResult surfaces no error and leaves the next
\* check scheduled.
C21_FailedPollSwallowed ==
  [][(pollReq' < pollReq /\ ev'.op # "pollOk")
       => (pollTimer' > 0 /\ analysisError' = analysisError)]_vars

C23_LateRefreshKeepsMerge ==
  [][(ev.op = "submitOk" /\ refreshReqs' < refreshReqs) =>
       /\ IdsOf(ev.body.new_nodes) \subseteq IdsOf(nodes')
       /\ IdsOf(ev.body.new_edges) \subseteq IdsOf(edges')]_vars

\* C24: a refresh whose GET of the nodes or of the edges fails changes
\* neither list (also not the one whose GET succeeded), nor the active node,
\* nor the error; the call is not made again, and the interval stays
\* registered with its next tick free to run.
C24_FailedRefreshSwallowed ==
  [][ ev'.op = "refreshFailed" =>
        /\ UNCHANGED <<nodes, edges, nodesType, edgesType, activeNode,
                       error>>
        /\ refreshReqs' = refreshReqs - 1
        /\ interval' = interval
        /\ interval' > 0
        /\ ~captured'
        /\ refreshReqs' < MaxRefresh ]_vars

C24_Witness ==
  /\ ev.op = "refreshFailed"
  /\ ev.status = "edges"
  /\ nodes # <<>>
  /\ interval = 1
  /\ refreshReqs = 0

\* C25: once the error of the view is set, no step clears it: not a refresh,
\* not a node detail, not a submission that settles, and not the load of
\* another case that succeeds after the route has changed.
C25_ErrorIsTerminal ==
  [][error # "" => error' = error]_vars

C25_Witness ==
  /\ error # ""
  /\ routeChanges > 0
  /\ caseData = id
  /\ ~loading
  /\ ~loadReq
  /\ nodes # <<>>

\* C28: at most one interaction POST is under way at any time, and one is
\* under way exactly while processing is true.
C28_OnePostInFlight ==
  /\ postReqs <= 1
  /\ processing <=> postReqs = 1

C28_Witness ==
  /\ postReqs = 1
  /\ processing
  /\ FormRendered
  /\ ~InputRejected(userInput, attachments)

\* C26: processing is true only while the POST of a validated submission is
\* under way, the step that settles the POST sets it to false whether the
\* POST succeeded or failed, and every submission gets there.
C26_ProcessingBrackets ==
  /\ [](processing => postReqs > 0)
  /\ [][postReqs' < postReqs => ~processing']_vars
  /\ (processing ~> ~processing)

C26_Witness ==
  /\ ev.op = "submitFailed"
  /\ ~processing
  /\ postReqs = 0

\* C27: the load of a mounted view is all or nothing: if it ends with the
\* error set, caseData, nodes and edges are what they were before; if it
\* ends without error, caseData is that of the case; either way loading
\* ends false.
C27_LoadAllOrNothing ==
  [][(mounted /\ loadReq /\ ~loadReq') =>
       /\ error' # "" => UNCHANGED <<caseData, nodes, edges, nodesType,
                                     edgesType>>
       /\ error' = "" => caseData' = id
       /\ ~loading']_vars

\* C29: once every selection made so far has its detail, the active node is
\* the node of the selection that was made last.
C29_ActiveIsLastRequested ==
  (lastSelect # "none" /\ detailReqs = {} /\ selectTimers = {})
    => (activeNode # NoNode /\ activeNode.id = lastSelect)

\* C30: a load or a refresh that was called for a case the route has left
\* is not applied when it is answered: the step that settles it leaves the
\* case data, the node list and the edge list alone.
C30_StaleResponseNotApplied ==
  [][(\E c \in RouteIds : stale'.loads[c] < stale.loads[c]
                          \/ stale'.refreshes[c] < stale.refreshes[c])
       => UNCHANGED <<caseData, nodes, edges>>]_vars

====
